---- MODULE Spec2Model ----
(***************************************************************************)
(* Model of the Streamlit review app embedded in src/app.py (app_code3):   *)
(* a table of doctors with proposed field updates, reviewed row by row.    *)
(* Every reviewer interaction re-executes the whole script against the     *)
(* session state ss (doctors, actions, audit).                             *)
(***************************************************************************)
EXTENDS Integers, Sequences, FiniteSets, TLC

VARIABLES
    seed,   \* the data the script builds base_df from
    ss,     \* streamlit session_state: doctors, actions, audit once seeded
    view,   \* the page the reviewer sees, as drawn by the last script run
    now,    \* the wall clock, in minutes
    hist,   \* the interactions so far, each with the session state it found
    launcher \* run_local.py: its position, the Streamlit child, pipe, browser

vars == <<seed, ss, view, now, hist, launcher>>

(* ------------------------------ bounds -------------------------------- *)
\* number of reviewer interactions (script runs) explored in one session
MaxOps == 4
\* wall-clock minutes that may pass during the session
MaxClock == 1
\* lines the Streamlit child writes to its output pipe
MaxLines == 2

(* ------------------------- Python / pandas values --------------------- *)
\* A cell is a tagged value: k is the Python type, s the text, n the number.
S(s) == [k |-> "str", s |-> s, n |-> 0]
I(n) == [k |-> "int", s |-> "", n |-> n]
F(n) == [k |-> "float", s |-> "", n |-> n]
NaN == [k |-> "nan", s |-> "", n |-> 0]
None == [k |-> "none", s |-> "", n |-> 0]

\* Python != on cells: numbers compare by value across int/float, NaN differs
\* from everything (itself included), a str never equals a number.
PyNe(a, b) ==
    IF a.k = "nan" \/ b.k = "nan" THEN TRUE
    ELSE IF a.k \in {"int", "float"} /\ b.k \in {"int", "float"} THEN a.n # b.n
    ELSE IF a.k = "str" /\ b.k = "str" THEN a.s # b.s
    ELSE a.k # b.k

\* str(v)
str(v) ==
    CASE v.k = "str" -> v.s
      [] v.k = "int" -> ToString(v.n)
      [] v.k = "float" -> ToString(v.n) \o ".0"
      [] v.k = "nan" -> "nan"
      [] OTHER -> "None"

\* the whitespace-only texts among the texts of the model
Blank == {"", " ", "  "}

\* str.strip(): every text of the model is either whitespace-only or has no
\* leading/trailing whitespace
strip(s) == IF s \in Blank THEN "" ELSE s

REVIEWER == "Albert Yao"

Columns ==
    {"Name", "Source Page", "Address", "Focus", "School Graduated", "Year",
     "New Address", "New Focus", "New School Graduated", "New Year"}

\* one row of the dict handed to pd.DataFrame
RawRow(name, src, addr, focus, school, year, naddr, nfocus, nschool, nyear) ==
    ("Name" :> name) @@ ("Source Page" :> src) @@ ("Address" :> addr) @@
    ("Focus" :> focus) @@ ("School Graduated" :> school) @@ ("Year" :> year) @@
    ("New Address" :> naddr) @@ ("New Focus" :> nfocus) @@
    ("New School Graduated" :> nschool) @@ ("New Year" :> nyear)

\* dtype pandas gives a column: int64 when all values are ints, float64 when
\* all are numbers or missing, object otherwise
dtype(df, col) ==
    IF \A i \in DOMAIN df : df[i][col].k = "int" THEN "int64"
    ELSE IF /\ \A i \in DOMAIN df : df[i][col].k \in {"int", "float", "nan", "none"}
            /\ \E j \in DOMAIN df : df[j][col].k # "none"
         THEN "float64"
    ELSE "object"

\* the value a column of dtype dt stores for v (an integral float fits an
\* int64 column; the script never assigns a missing value to one)
coerce(dt, v) ==
    CASE dt = "float64" /\ v.k = "none" -> NaN
      [] dt = "float64" /\ v.k = "int" -> F(v.n)
      [] dt = "int64" /\ v.k = "float" -> I(v.n)
      [] OTHER -> v

\* pd.DataFrame(data): each column gets its inferred dtype
DataFrame(data) ==
    [i \in DOMAIN data |-> [c \in Columns |-> coerce(dtype(data, c), data[i][c])]]

\* an assignment to the whole column instead of the cell at idx
at_set_column(df, idx, col, v) ==
    [i \in DOMAIN df |-> [df[i] EXCEPT ![col] = coerce(dtype(df, col), v)]]

\* df.at[idx, col] = v
at_set(df, idx, col, v) ==
    [df EXCEPT ![idx][col] = coerce(dtype(df, col), v)]

seed_data ==
    (0 :> RawRow(S("Dr. Sarah Johnson"), S("https://example.com/sarah-johnson"),
                 S("123 Medical Center Dr, Boston, MA"), S("Cardiology"),
                 S("Harvard Medical School"), I(2015),
                 S("123 Medical Center Dr, Boston, MA"), S(""), S(""), None)) @@
    (1 :> RawRow(S("Dr. Michael Chen"), S("https://example.com/michael-chen"),
                 S("456 Healthcare Blvd, New York, NY"), S("Neurology"),
                 S("Johns Hopkins"), I(2018),
                 S("999 5th Ave, New York, NY"), S("Neurosurgery"), S(""), None)) @@
    (2 :> RawRow(S("Dr. Emily Rodriguez"), S("https://example.com/emily-rodriguez"),
                 S("789 Clinic Ave, Chicago, IL"), S("Pediatrics"),
                 S("Stanford Medicine"), I(2012),
                 S(""), S(""), S("Stanford School of Medicine"), None)) @@
    (3 :> RawRow(S("Dr. James Wilson"), S("https://example.com/james-wilson"),
                 S("321 Hospital St, Los Angeles, CA"), S("Orthopedics"),
                 S("Yale School of Medicine"), I(2016),
                 S(""), S(""), S(""), I(2018))) @@
    (4 :> RawRow(S("Dr. Lisa Park"), S("https://example.com/lisa-park"),
                 S("654 Medical Plaza, Houston, TX"), S("Dermatology"),
                 S("UCLA Medical School"), I(2020),
                 S("1200 Main St, Houston, TX"), S(""), S(""), None))

base_df == DataFrame(seed)

(* ------------------------------ helpers ------------------------------- *)
\* _nonempty without the strip()
_nonempty_no_strip(v) ==
    IF v.k = "none" THEN FALSE
    ELSE IF v.k = "nan" THEN FALSE
    ELSE str(v) # ""

_nonempty(v) ==
    IF v.k = "none" THEN FALSE
    ELSE IF v.k = "nan" THEN FALSE
    ELSE strip(str(v)) # ""

_proposed_pairs ==
    << <<"Address", "New Address">>,
       <<"Focus", "New Focus">>,
       <<"School Graduated", "New School Graduated">>,
       <<"Year", "New Year">> >>

\* the for loop of get_changes from pair k on, changes being the list so far
RECURSIVE get_changes_loop(_, _, _)
get_changes_loop(row, k, changes) ==
    IF k > Len(_proposed_pairs) THEN changes
    ELSE LET base_col == _proposed_pairs[k][1]
             new_col == _proposed_pairs[k][2]
             new_val == IF new_col \in DOMAIN row THEN row[new_col] ELSE None
         IN get_changes_loop(row, k + 1,
                IF _nonempty(new_val) /\ PyNe(new_val, row[base_col])
                THEN Append(changes, <<base_col, row[base_col], new_val>>)
                ELSE changes)

\* get_changes listing the changes last pair first
get_changes_reversed(row) ==
    LET changes == get_changes_loop(row, 1, <<>>)
    IN [j \in 1..Len(changes) |-> changes[Len(changes) + 1 - j]]

get_changes(row) == get_changes_loop(row, 1, <<>>)

\* a join that keeps the first field only
join_first_only(fields) == IF Len(fields) = 0 THEN "" ELSE fields[1]

\* ", ".join(fields)
RECURSIVE join(_)
join(fields) ==
    IF Len(fields) = 0 THEN ""
    ELSE IF Len(fields) = 1 THEN fields[1]
    ELSE fields[1] \o ", " \o join(Tail(fields))

\* log_audit replacing the log by the new entry
log_audit_overwrites(s, ts, name, action, fields_changed) ==
    [s EXCEPT !.audit =
        <<[Time |-> ts, Reviewer |-> REVIEWER, Name |-> name, Action |-> action,
           Fields |-> IF Len(fields_changed) > 0
                      THEN join(fields_changed) ELSE "-"]>>]

\* the session state after log_audit; ts is datetime.now() to the minute
log_audit(s, ts, name, action, fields_changed) ==
    LET entry == [Time |-> ts,
                  Reviewer |-> REVIEWER,
                  Name |-> name,
                  Action |-> action,
                  Fields |-> IF Len(fields_changed) > 0
                             THEN join(fields_changed) ELSE "-"]
    IN [s EXCEPT !.audit = Append(@, entry)]

(* a Python dict as the sequence of its <<key, value>> items *)
EmptyDict == <<>>

dict_keys(d) == {d[j][1] : j \in DOMAIN d}

dict_get(d, key) == d[CHOOSE j \in DOMAIN d : d[j][1] = key][2]

\* d[key] = value: an existing key keeps its position
dict_set(d, key, value) ==
    IF key \in dict_keys(d)
    THEN [j \in DOMAIN d |-> IF d[j][1] = key THEN <<key, value>> ELSE d[j]]
    ELSE Append(d, <<key, value>>)

\* accept_loop leaving the proposal slot as it was
RECURSIVE accept_loop_keeps_slot(_, _, _, _, _)
accept_loop_keeps_slot(df, idx, changes, k, changed_fields) ==
    IF k > Len(changes) THEN [df |-> df, changed_fields |-> changed_fields]
    ELSE accept_loop_keeps_slot(at_set(df, idx, changes[k][1], changes[k][3]), idx,
                                changes, k + 1, Append(changed_fields, changes[k][1]))

\* the for loop of accept_row from change k on
RECURSIVE accept_loop(_, _, _, _, _)
accept_loop(df, idx, changes, k, changed_fields) ==
    IF k > Len(changes) THEN [df |-> df, changed_fields |-> changed_fields]
    ELSE LET field == changes[k][1]
             new == changes[k][3]
             df1 == at_set(df, idx, field, new)
             new_col == IF field # "School Graduated" THEN "New " \o field
                        ELSE "New School Graduated"
             df2 == IF new_col \in DOMAIN df1[idx]
                    THEN at_set(df1, idx, new_col,
                                IF df1[idx][new_col].k = "str" THEN S("") ELSE None)
                    ELSE df1
         IN accept_loop(df2, idx, changes, k + 1, Append(changed_fields, field))

\* accept_row clearing every proposal slot of the row, changed or not
accept_row_clears_all(s, idx, ts) ==
    LET row == s.doctors[idx]
        changes == get_changes(row)
        r == accept_loop(s.doctors, idx, changes, 1, <<>>)
        cleared == [r.df EXCEPT ![idx] =
                       [c \in DOMAIN r.df[idx] |->
                           IF \E k \in 1..Len(_proposed_pairs) : c = _proposed_pairs[k][2]
                           THEN (IF r.df[idx][c].k = "str" THEN S("")
                                 ELSE coerce(dtype(r.df, c), None))
                           ELSE r.df[idx][c]]]
    IN IF Len(changes) = 0
       THEN log_audit([s EXCEPT !.doctors = cleared], ts, row["Name"].s,
                      "accepted (no-op)", <<>>)
       ELSE log_audit([s EXCEPT !.doctors = cleared,
                                !.actions = dict_set(@, row["Name"].s, "accepted")],
                      ts, row["Name"].s, "accepted", r.changed_fields)

\* accept_row recording the no-op in the action map too
accept_row_noop_in_map(s, idx, ts) ==
    LET row == s.doctors[idx]
        changes == get_changes(row)
        r == accept_loop(s.doctors, idx, changes, 1, <<>>)
        s1 == [s EXCEPT !.doctors = r.df]
        s2 == [s1 EXCEPT !.actions =
                  dict_set(@, row["Name"].s,
                           IF Len(changes) = 0 THEN "accepted (no-op)" ELSE "accepted")]
    IN log_audit(s2, ts, row["Name"].s,
                 IF Len(changes) = 0 THEN "accepted (no-op)" ELSE "accepted",
                 r.changed_fields)

\* accept_row logging a plain 'accepted' when there is nothing to apply
accept_row_noop_as_accepted(s, idx, ts) ==
    LET row == s.doctors[idx]
        changes == get_changes(row)
        r == accept_loop(s.doctors, idx, changes, 1, <<>>)
        s1 == [s EXCEPT !.doctors = r.df]
        s2 == IF Len(changes) = 0 THEN s1
              ELSE [s1 EXCEPT !.actions = dict_set(@, row["Name"].s, "accepted")]
    IN log_audit(s2, ts, row["Name"].s, "accepted", r.changed_fields)

\* the session state after accept_row(idx) at clock reading ts
accept_row(s, idx, ts) ==
    LET df == s.doctors
        row == df[idx]
        changes == get_changes(row)
    IN IF Len(changes) = 0
       THEN log_audit(s, ts, row["Name"].s, "accepted (no-op)", <<>>)
       ELSE LET r == accept_loop(df, idx, changes, 1, <<>>)
                s1 == [s EXCEPT !.doctors = r.df]
                s2 == [s1 EXCEPT !.actions = dict_set(@, row["Name"].s, "accepted")]
            IN log_audit(s2, ts, row["Name"].s, "accepted", r.changed_fields)

\* reject_loop clearing only the proposals that differ from the current value
RECURSIVE reject_loop_only_changes(_, _, _, _, _)
reject_loop_only_changes(df, idx, row, k, proposed_fields) ==
    IF k > Len(_proposed_pairs)
    THEN [df |-> df, proposed_fields |-> proposed_fields]
    ELSE LET base_col == _proposed_pairs[k][1]
             new_col == _proposed_pairs[k][2]
         IN IF _nonempty(row[new_col]) /\ PyNe(row[new_col], row[base_col])
            THEN reject_loop_only_changes(
                     at_set(df, idx, new_col,
                            IF df[idx][new_col].k = "str" THEN S("") ELSE None),
                     idx, row, k + 1, Append(proposed_fields, base_col))
            ELSE reject_loop_only_changes(df, idx, row, k + 1, proposed_fields)

\* reject_loop listing the proposed fields without clearing their slots
RECURSIVE reject_loop_keeps_slot(_, _, _, _, _)
reject_loop_keeps_slot(df, idx, row, k, proposed_fields) ==
    IF k > Len(_proposed_pairs)
    THEN [df |-> df, proposed_fields |-> proposed_fields]
    ELSE reject_loop_keeps_slot(df, idx, row, k + 1,
             IF _nonempty(row[_proposed_pairs[k][2]])
             THEN Append(proposed_fields, _proposed_pairs[k][1])
             ELSE proposed_fields)

\* the for loop of reject_row from pair k on; row is the copy taken on entry
RECURSIVE reject_loop(_, _, _, _, _)
reject_loop(df, idx, row, k, proposed_fields) ==
    IF k > Len(_proposed_pairs)
    THEN [df |-> df, proposed_fields |-> proposed_fields]
    ELSE LET base_col == _proposed_pairs[k][1]
             new_col == _proposed_pairs[k][2]
         IN IF new_col \in DOMAIN df[idx] /\ _nonempty(row[new_col])
            THEN reject_loop(at_set(df, idx, new_col,
                                    IF df[idx][new_col].k = "str" THEN S("") ELSE None),
                             idx, row, k + 1, Append(proposed_fields, base_col))
            ELSE reject_loop(df, idx, row, k + 1, proposed_fields)

\* reject_row forgetting the action map
reject_row_no_action(s, idx, ts) ==
    LET row == s.doctors[idx]
        r == reject_loop(s.doctors, idx, row, 1, <<>>)
    IN log_audit([s EXCEPT !.doctors = r.df], ts, row["Name"].s, "rejected",
                 r.proposed_fields)

\* the session state after reject_row(idx) at clock reading ts
reject_row(s, idx, ts) ==
    LET df == s.doctors
        row == df[idx]
        r == reject_loop(df, idx, row, 1, <<>>)
        s1 == [s EXCEPT !.doctors = r.df]
        s2 == [s1 EXCEPT !.actions = dict_set(@, row["Name"].s, "rejected")]
    IN log_audit(s2, ts, row["Name"].s, "rejected", r.proposed_fields)

(* --------------------------- the script run --------------------------- *)
\* the script copying base_df into the session on every run
Seed_every_run(s) ==
    ("doctors" :> base_df) @@
    (IF "actions" \notin DOMAIN s THEN ("actions" :> EmptyDict) @@ s ELSE s) @@
    (IF "audit" \notin DOMAIN s THEN ("audit" :> <<>>) @@ s ELSE s)

\* "Persist table across reruns": each key is set only when absent
Seed(s) ==
    LET s1 == IF "doctors" \notin DOMAIN s THEN ("doctors" :> base_df) @@ s ELSE s
        s2 == IF "actions" \notin DOMAIN s1 THEN ("actions" :> EmptyDict) @@ s1 ELSE s1
        s3 == IF "audit" \notin DOMAIN s2 THEN ("audit" :> <<>>) @@ s2 ELSE s2
    IN s3

\* a.startswith("accepted") over the action kinds of the program
startswith_accepted(a) == a \in {"accepted", "accepted (no-op)"}

\* [n for n, a in ss.actions.items() if a.startswith("accepted")]
accepted_names(d) ==
    LET hits == SelectSeq(d, LAMBDA it : startswith_accepted(it[2]))
    IN [j \in DOMAIN hits |-> hits[j][1]]

\* [n for n, a in ss.actions.items() if a == "rejected"]
rejected_names(d) ==
    LET hits == SelectSeq(d, LAMBDA it : it[2] = "rejected")
    IN [j \in DOMAIN hits |-> hits[j][1]]

\* one line of the review table
RenderRow(row) ==
    [Doctor |-> row["Name"],
     Source |-> IF _nonempty(row["Source Page"]) THEN row["Source Page"] ELSE S("-"),
     Address |-> row["Address"],
     Focus |-> row["Focus"],
     School |-> row["School Graduated"],
     Year |-> row["Year"],
     Changes |-> get_changes(row)]

\* what one complete pass of the script draws from session state s
Render(s) ==
    [rendered |-> TRUE,
     table |-> [i \in DOMAIN s.doctors |-> RenderRow(s.doctors[i])],
     accepted |-> accepted_names(s.actions),
     rejected |-> rejected_names(s.actions),
     audit |-> s.audit]

\* the page before the script has run
NoView ==
    [rendered |-> FALSE, table |-> <<>>, accepted |-> <<>>, rejected |-> <<>>,
     audit |-> <<>>]

(* ------------------------------ launcher ------------------------------ *)
\* wait_health(timeout=40), requests.get(url, timeout=3), in seconds
timeout == 40
request_timeout == 3

\* the launcher about to write app.py; port_busy: some process listens on
\* :8501. elapsed counts half seconds since wait_health took t0.
LauncherStart(busy) ==
    [pc |-> "write_app", child |-> "none", port_busy |-> busy, elapsed |-> 0,
     pipe |-> 0, emitted |-> 0, health200 |-> FALSE, browser |-> FALSE,
     term_sent |-> FALSE, exit |-> "running"]

\* the launcher streaming the logs of a serving child: the state in which
\* the reviewer uses the page
LauncherServing ==
    [pc |-> "stream", child |-> "serving", port_busy |-> FALSE, elapsed |-> 0,
     pipe |-> 0, emitted |-> 0, health200 |-> TRUE, browser |-> TRUE,
     term_sent |-> FALSE, exit |-> "running"]

AppIdle == UNCHANGED <<seed, ss, view, now, hist>>

\* Path("app.py").write_text(app_code3)
WriteApp ==
    /\ launcher.pc = "write_app"
    /\ launcher' = [launcher EXCEPT !.pc = "kill_port"]
    /\ AppIdle

\* kill_on_port(8501): best effort, every failure is swallowed
KillOnPort ==
    /\ launcher.pc = "kill_port"
    /\ \E busy \in {FALSE, launcher.port_busy} :
          launcher' = [launcher EXCEPT !.pc = "spawn", !.port_busy = busy]
    /\ AppIdle

\* proc = subprocess.Popen(cmd, ...)
Spawn ==
    /\ launcher.pc = "spawn"
    /\ launcher' = [launcher EXCEPT !.pc = "wait_health", !.child = "starting"]
    /\ AppIdle

\* Popen raises (no streamlit on the path): the launcher dies without a child
SpawnFails ==
    /\ launcher.pc = "spawn"
    /\ launcher' = [launcher EXCEPT !.pc = "ended", !.exit = "error"]
    /\ AppIdle

\* one turn of the wait_health loop whose request returns status 200
HealthOk ==
    /\ launcher.pc = "wait_health"
    /\ launcher.elapsed < 2 * timeout
    /\ launcher.child = "serving" \/ launcher.port_busy
    /\ launcher' = [launcher EXCEPT !.pc = "open_browser", !.health200 = TRUE]
    /\ AppIdle

\* one turn whose request fails or returns another status, then sleep(0.5)
HealthRetry ==
    /\ launcher.pc = "wait_health"
    /\ launcher.elapsed < 2 * timeout
    /\ \E d \in 1..(1 + 2 * request_timeout) :
          launcher' = [launcher EXCEPT !.elapsed = @ + d]
    /\ AppIdle

\* the loop condition fails: wait_health returns False
HealthTimeout ==
    /\ launcher.pc = "wait_health"
    /\ launcher.elapsed >= 2 * timeout
    /\ launcher' = [launcher EXCEPT !.pc = "dump_logs"]
    /\ AppIdle

\* the failure branch prints a line of the child's output
DumpLine ==
    /\ launcher.pc = "dump_logs"
    /\ launcher.pipe > 0
    /\ launcher' = [launcher EXCEPT !.pipe = @ - 1]
    /\ AppIdle

\* readline() returns '' at end of file: break, sys.exit(1)
DumpEnds ==
    /\ launcher.pc = "dump_logs"
    /\ launcher.pipe = 0
    /\ launcher.child = "exited"
    /\ launcher' = [launcher EXCEPT !.pc = "ended", !.exit = "1"]
    /\ AppIdle

\* webbrowser.open(...), failures swallowed
OpenBrowser ==
    /\ launcher.pc = "open_browser"
    /\ launcher' = [launcher EXCEPT !.pc = "stream", !.browser = TRUE]
    /\ AppIdle

\* the streaming loop prints a line of the child's output
StreamLine ==
    /\ launcher.pc = "stream"
    /\ launcher.pipe > 0
    /\ launcher' = [launcher EXCEPT !.pipe = @ - 1]
    /\ AppIdle

\* KeyboardInterrupt in the streaming loop: the handler calls proc.terminate()
InterruptStreaming ==
    /\ launcher.pc = "stream"
    /\ launcher' = [launcher EXCEPT !.pc = "ended", !.term_sent = TRUE, !.exit = "0"]
    /\ AppIdle

\* KeyboardInterrupt anywhere else: no handler (except Exception does not
\* catch it), the launcher ends with the traceback
InterruptElsewhere ==
    /\ launcher.pc \notin {"stream", "ended"}
    /\ launcher' = [launcher EXCEPT !.pc = "ended", !.exit = "KeyboardInterrupt"]
    /\ AppIdle

\* the child starts serving on :8501 (it cannot while the port is taken)
ChildServes ==
    /\ launcher.child = "starting"
    /\ ~launcher.port_busy
    /\ launcher' = [launcher EXCEPT !.child = "serving"]
    /\ AppIdle

\* the child writes a line to the pipe
ChildWrites ==
    /\ launcher.child \in {"starting", "serving"}
    /\ launcher.emitted < MaxLines
    /\ launcher' = [launcher EXCEPT !.pipe = @ + 1, !.emitted = @ + 1]
    /\ AppIdle

\* the child ends: a crash, the port in use, or a signal it received
ChildExits ==
    /\ launcher.child \in {"starting", "serving"}
    /\ launcher' = [launcher EXCEPT !.child = "exited"]
    /\ AppIdle

InitLauncher ==
    /\ seed = seed_data
    /\ ss = EmptyDict
    /\ view = NoView
    /\ now = 0
    /\ hist = <<>>
    /\ \E busy \in BOOLEAN : launcher = LauncherStart(busy)

NextLauncher ==
    \/ WriteApp
    \/ KillOnPort
    \/ Spawn
    \/ SpawnFails
    \/ HealthOk
    \/ HealthRetry
    \/ HealthTimeout
    \/ DumpLine
    \/ DumpEnds
    \/ OpenBrowser
    \/ StreamLine
    \/ InterruptStreaming
    \/ InterruptElsewhere
    \/ ChildServes
    \/ ChildWrites
    \/ ChildExits

SpecLauncher == InitLauncher /\ [][NextLauncher]_vars

Init ==
    /\ seed = seed_data
    /\ ss = EmptyDict
    /\ view = NoView
    /\ now = 0
    /\ hist = <<>>
    /\ launcher = LauncherServing

\* the record of one interaction: what was pressed, on which row, and the
\* session state the script run started from
Op(op, idx) == [op |-> op, idx |-> idx, pre |-> ss]

\* a run of the script with no button pressed (first load, or any widget
\* interaction that presses nothing)
Rerun ==
    /\ Len(hist) < MaxOps
    /\ ss' = Seed(ss)
    /\ view' = Render(ss')
    /\ hist' = Append(hist, Op("rerun", -1))
    /\ UNCHANGED <<seed, now, launcher>>

\* the Accept button of row i: the run reaches the button, accept_row(i)
\* runs, st.rerun() restarts the script, which draws the page again
Accept(i) ==
    /\ Len(hist) < MaxOps
    /\ view.rendered
    /\ i \in DOMAIN view.table
    /\ LET s0 == Seed(ss)
           s1 == accept_row(s0, i, now)
       IN /\ ss' = Seed(s1)
          /\ view' = Render(ss')
    /\ hist' = Append(hist, Op("accept", i))
    /\ UNCHANGED <<seed, now, launcher>>

\* the Reject button of row i
Reject(i) ==
    /\ Len(hist) < MaxOps
    /\ view.rendered
    /\ i \in DOMAIN view.table
    /\ LET s0 == Seed(ss)
           s1 == reject_row(s0, i, now)
       IN /\ ss' = Seed(s1)
          /\ view' = Render(ss')
    /\ hist' = Append(hist, Op("reject", i))
    /\ UNCHANGED <<seed, now, launcher>>

\* the clear-actions button clearing the audit log as well
ClearActions_and_audit ==
    /\ Len(hist) < MaxOps
    /\ view.rendered
    /\ view' = Render(Seed(ss))
    /\ ss' = [Seed(ss) EXCEPT !.actions = EmptyDict, !.audit = <<>>]
    /\ hist' = Append(hist, Op("clear_actions", -1))
    /\ UNCHANGED <<seed, now, launcher>>

\* "Clear Session Actions": the page is drawn first, the button is the last
\* thing the run reaches, and nothing restarts the script
ClearActions ==
    /\ Len(hist) < MaxOps
    /\ view.rendered
    /\ LET s0 == Seed(ss)
       IN /\ view' = Render(s0)
          /\ ss' = [s0 EXCEPT !.actions = EmptyDict]
    /\ hist' = Append(hist, Op("clear_actions", -1))
    /\ UNCHANGED <<seed, now, launcher>>

\* "Clear Audit Log"
ClearAudit ==
    /\ Len(hist) < MaxOps
    /\ view.rendered
    /\ LET s0 == Seed(ss)
       IN /\ view' = Render(s0)
          /\ ss' = [s0 EXCEPT !.audit = <<>>]
    /\ hist' = Append(hist, Op("clear_audit", -1))
    /\ UNCHANGED <<seed, now, launcher>>

\* a minute passes on the wall clock read by datetime.now()
Tick ==
    /\ now < MaxClock
    /\ now' = now + 1
    /\ UNCHANGED <<seed, ss, view, hist, launcher>>

Next ==
    \/ Rerun
    \/ \E i \in DOMAIN view.table : Accept(i)
    \/ \E i \in DOMAIN view.table : Reject(i)
    \/ ClearActions
    \/ ClearAudit
    \/ Tick

Spec == Init /\ [][Next]_vars

(* the same script over other seed data: one row, proposals of every shape *)
AnyAddress == {S(""), S(" "), S("a1"), S("a2"), None}
AnyFocus == {S(""), S("f1"), S("f2")}
AnySchool == {S(""), S("s2")}
AnyYear == {None, F(1), F(2)}

AnySeed ==
    {(0 :> RawRow(S("Dr. A"), S(""), S("a1"), S("f1"), S("s1"), I(1), na, nf, nsch, ny)) :
        na \in AnyAddress, nf \in AnyFocus, nsch \in AnySchool, ny \in AnyYear}

InitAny ==
    /\ seed \in AnySeed
    /\ ss = EmptyDict
    /\ view = NoView
    /\ now = 0
    /\ hist = <<>>
    /\ launcher = LauncherServing

SpecAny == InitAny /\ [][Next]_vars

(* --------------------------- shared vocabulary ------------------------ *)
Seeded(s) == DOMAIN s = {"doctors", "actions", "audit"}

\* the latest interaction and the session state it started from
last == hist[Len(hist)]
pre == last.pre

TypeOK ==
    /\ Len(hist) \in 0..MaxOps
    /\ now \in 0..MaxClock
    /\ view.rendered => Seeded(ss)

(* ----------------------- vocabulary of the claims --------------------- *)
TrackedFields == <<"Address", "Focus", "School Graduated", "Year">>

\* the proposal slot of a tracked field
SlotOf(f) == "New " \o f

\* a slot holds a proposal: it is neither null nor empty (a text of nothing
\* but whitespace counts as empty)
Active(v) == v.k \notin {"none", "nan"} /\ ~(v.k = "str" /\ v.s \in Blank)

\* two cells hold the same value (numbers by value, texts by content)
SameValue(a, b) ==
    \/ a.k \in {"int", "float"} /\ b.k \in {"int", "float"} /\ a.n = b.n
    \/ a.k = "str" /\ b.k = "str" /\ a.s = b.s

\* the fields of a row whose active proposal differs from the current value
ChangeList(row) ==
    SelectSeq(TrackedFields,
              LAMBDA f : Active(row[SlotOf(f)]) /\ ~SameValue(row[SlotOf(f)], row[f]))

\* the fields of a row whose proposal slot is active
ActiveList(row) == SelectSeq(TrackedFields, LAMBDA f : Active(row[SlotOf(f)]))

\* the audit log is the earlier log plus exactly one entry
OneAppended(before, after) ==
    /\ Len(after) = Len(before) + 1
    /\ SubSeq(after, 1, Len(before)) = before

\* the Fields text of an audit entry listing the field names fs
FieldsText(fs) == IF fs = <<>> THEN "-" ELSE join(fs)

LastIs(op) == Len(hist) > 0 /\ last.op = op

\* C1: accepting a row whose change list has k >= 1 fields leaves each of the
\* k current fields equal to its prior proposal, each of the k slots empty,
\* the action map entry of the row's name 'accepted', and appends exactly one
\* audit entry 'accepted' listing the k field names in tracked-field order.
C1_AcceptApplies ==
    LastIs("accept") =>
        LET old == pre.doctors[last.idx]
            new == ss.doctors[last.idx]
            ch == ChangeList(old)
            name == old["Name"].s
        IN Len(ch) >= 1 =>
            /\ \A j \in 1..Len(ch) :
                  /\ SameValue(new[ch[j]], old[SlotOf(ch[j])])
                  /\ ~Active(new[SlotOf(ch[j])])
            /\ name \in dict_keys(ss.actions)
            /\ dict_get(ss.actions, name) = "accepted"
            /\ OneAppended(pre.audit, ss.audit)
            /\ ss.audit[Len(ss.audit)].Name = name
            /\ ss.audit[Len(ss.audit)].Action = "accepted"
            /\ ss.audit[Len(ss.audit)].Fields = FieldsText(ch)

\* an accept of a row with two changed fields has just run
C1_Witness ==
    /\ LastIs("accept")
    /\ Len(ChangeList(pre.doctors[last.idx])) = 2
    /\ ss.audit[Len(ss.audit)].Fields = "Address, Focus"

\* C2: accepting a row whose change list is empty leaves every current field
\* and every proposal slot of every row unchanged and appends exactly one
\* audit entry 'accepted (no-op)' with an empty field list.
C2_AcceptNoop ==
    LastIs("accept") =>
        (ChangeList(pre.doctors[last.idx]) = <<>> =>
            /\ ss.doctors = pre.doctors
            /\ OneAppended(pre.audit, ss.audit)
            /\ ss.audit[Len(ss.audit)].Action = "accepted (no-op)"
            /\ ss.audit[Len(ss.audit)].Fields = FieldsText(<<>>))

\* an accept of a row that still holds an active but equal proposal has run
C2_Witness ==
    /\ LastIs("accept")
    /\ ChangeList(pre.doctors[last.idx]) = <<>>
    /\ ActiveList(pre.doctors[last.idx]) # <<>>
    /\ Len(ss.audit) >= 1

\* C3: rejecting a row with m >= 0 active proposal slots empties all m slots
\* (equal to the current value or not), leaves the four current fields as
\* they were, sets the action map entry of the row's name to 'rejected' and
\* appends exactly one audit entry 'rejected' listing those m base fields in
\* tracked-field order.
C3_RejectClears ==
    LastIs("reject") =>
        LET old == pre.doctors[last.idx]
            new == ss.doctors[last.idx]
            act == ActiveList(old)
            name == old["Name"].s
        IN /\ \A j \in 1..Len(act) : ~Active(new[SlotOf(act[j])])
           /\ \A j \in 1..Len(TrackedFields) :
                 new[TrackedFields[j]] = old[TrackedFields[j]]
           /\ name \in dict_keys(ss.actions)
           /\ dict_get(ss.actions, name) = "rejected"
           /\ OneAppended(pre.audit, ss.audit)
           /\ ss.audit[Len(ss.audit)].Name = name
           /\ ss.audit[Len(ss.audit)].Action = "rejected"
           /\ ss.audit[Len(ss.audit)].Fields = FieldsText(act)

\* a reject of a row whose only active proposal equals the current value
C3_Witness ==
    /\ LastIs("reject")
    /\ ActiveList(pre.doctors[last.idx]) = <<"Address">>
    /\ ChangeList(pre.doctors[last.idx]) = <<>>
    /\ ss.audit[Len(ss.audit)].Fields = "Address"

\* the audit log after the first j interactions
AuditAt(j) ==
    IF j = Len(hist) THEN (IF Seeded(ss) THEN ss.audit ELSE <<>>)
    ELSE IF Seeded(hist[j + 1].pre) THEN hist[j + 1].pre.audit ELSE <<>>

\* the accepts and rejects among interactions a+1 .. b
Reviews(a, b) == {j \in (a + 1)..b : hist[j].op \in {"accept", "reject"}}

\* C4: over any stretch of interactions without clear-audit-log the earlier
\* audit log is a prefix of the later one, and the log grows by exactly one
\* per accept or reject (no-op accepts included) and by nothing else.
C4_AppendOnly ==
    \A a \in 0..Len(hist) : \A b \in a..Len(hist) :
        (\A j \in (a + 1)..b : hist[j].op # "clear_audit") =>
            /\ Len(AuditAt(b)) = Len(AuditAt(a)) + Cardinality(Reviews(a, b))
            /\ SubSeq(AuditAt(b), 1, Len(AuditAt(a))) = AuditAt(a)

\* two reviews with a clear-actions between them, one of them a no-op accept
C4_Witness ==
    /\ Len(hist) = 4
    /\ hist[2].op = "reject"
    /\ hist[3].op = "clear_actions"
    /\ hist[4].op = "accept"
    /\ Len(ss.audit) = 2
    /\ ss.audit[2].Action = "accepted (no-op)"

\* the entity name interaction j acted on
NameAt(j) == hist[j].pre.doctors[hist[j].idx]["Name"].s

\* the interactions since the last clear-actions
SinceClear ==
    LET clears == {j \in 1..Len(hist) : hist[j].op = "clear_actions"}
        from == IF clears = {} THEN 1
                ELSE (CHOOSE j \in clears : \A m \in clears : m <= j) + 1
    IN from..Len(hist)

Latest(js) == CHOOSE j \in js : \A m \in js : m <= j

KindOf(op) == IF op = "accept" THEN "accepted" ELSE "rejected"

\* accepts and rejects invoked on name since the last clear-actions
Invoked(name) ==
    {j \in SinceClear : hist[j].op \in {"accept", "reject"} /\ NameAt(j) = name}

\* of these, the rejects and the accepts that had a change to apply
Effective(name) ==
    {j \in Invoked(name) :
        hist[j].op = "accept" => ChangeList(hist[j].pre.doctors[hist[j].idx]) # <<>>}

\* C5 as stated: for every entity on which accept or reject was invoked since
\* the last clear-actions, the action map holds the kind of the latest one.
C5_LatestInvoked ==
    Seeded(ss) =>
        \A i \in DOMAIN ss.doctors :
            LET name == ss.doctors[i]["Name"].s
            IN Invoked(name) # {} =>
                /\ name \in dict_keys(ss.actions)
                /\ dict_get(ss.actions, name) = KindOf(hist[Latest(Invoked(name))].op)

\* C5 amended: for every entity on which a reject, or an accept that had at
\* least one change to apply, was invoked since the last clear-actions, the
\* action map holds the kind of the latest such invocation; an accept with
\* nothing to apply leaves the action map as it was.
C5_LatestEffective ==
    /\ Seeded(ss) =>
          \A i \in DOMAIN ss.doctors :
              LET name == ss.doctors[i]["Name"].s
              IN Effective(name) # {} =>
                  /\ name \in dict_keys(ss.actions)
                  /\ dict_get(ss.actions, name) =
                        KindOf(hist[Latest(Effective(name))].op)
    /\ (LastIs("accept") /\ ChangeList(pre.doctors[last.idx]) = <<>>) =>
          ss.actions = pre.actions

\* a no-op accept right after a reject of the same row: the map still says
\* 'rejected'
C5_Witness ==
    /\ Len(hist) >= 3
    /\ last.op = "accept"
    /\ hist[Len(hist) - 1].op = "reject"
    /\ hist[Len(hist) - 1].idx = last.idx
    /\ Effective(NameAt(Len(hist))) # Invoked(NameAt(Len(hist)))
    /\ dict_get(ss.actions, NameAt(Len(hist))) = "rejected"

\* C6: clear-actions empties the action map and leaves the audit log and all
\* rows as they were; clear-audit-log empties the audit log and leaves the
\* action map and all rows as they were.
C6_Clearers ==
    /\ LastIs("clear_actions") =>
          /\ ss.actions = EmptyDict
          /\ ss.audit = pre.audit
          /\ ss.doctors = pre.doctors
    /\ LastIs("clear_audit") =>
          /\ ss.audit = <<>>
          /\ ss.actions = pre.actions
          /\ ss.doctors = pre.doctors

\* both clearers have run on a session with accepted data, a non-empty map
\* and a non-empty log
C6_Witness ==
    /\ Len(hist) = 4
    /\ hist[2].op = "accept"
    /\ hist[3].op = "clear_audit"
    /\ hist[3].pre.audit # <<>>
    /\ hist[4].op = "clear_actions"
    /\ hist[4].pre.actions # EmptyDict
    /\ ss.doctors # DataFrame(seed_data)
    /\ ss.actions = EmptyDict /\ ss.audit = <<>>

\* C7: a second accept (reject) right after an accept (reject) of the same row
\* leaves all rows as the first left them and appends one audit entry:
\* 'accepted (no-op)' for accept, 'rejected' for reject, with an empty field
\* list.
C7_Idempotent ==
    (/\ Len(hist) >= 2
     /\ last.op \in {"accept", "reject"}
     /\ hist[Len(hist) - 1].op = last.op
     /\ hist[Len(hist) - 1].idx = last.idx) =>
        /\ ss.doctors = pre.doctors
        /\ OneAppended(pre.audit, ss.audit)
        /\ ss.audit[Len(ss.audit)].Name = NameAt(Len(hist))
        /\ ss.audit[Len(ss.audit)].Action =
              (IF last.op = "accept" THEN "accepted (no-op)" ELSE "rejected")
        /\ ss.audit[Len(ss.audit)].Fields = FieldsText(<<>>)

\* a second accept of a row whose first accept applied changes
C7_Witness ==
    /\ Len(hist) >= 3
    /\ last.op = "accept"
    /\ hist[Len(hist) - 1].op = "accept"
    /\ hist[Len(hist) - 1].idx = last.idx
    /\ ChangeList(hist[Len(hist) - 1].pre.doctors[last.idx]) # <<>>
    /\ Len(ss.audit) >= 2

\* the (field, old, new) triples of the changed fields of a row
ChangeTriples(row) ==
    [j \in 1..Len(ChangeList(row)) |->
        <<ChangeList(row)[j], row[ChangeList(row)[j]], row[SlotOf(ChangeList(row)[j])]>>]

\* C8: get_changes returns a (field, old, new) triple for a tracked field
\* exactly when its proposal slot is non-empty/non-null and differs from the
\* current value, in the order Address, Focus, School Graduated, Year; the
\* script run that computes it for the page changes no session state, and the
\* list drawn on the page is what a further call on the row returns.
C8_GetChanges ==
    /\ Seeded(ss) =>
          \A i \in DOMAIN ss.doctors :
              get_changes(ss.doctors[i]) = ChangeTriples(ss.doctors[i])
    /\ view.rendered =>
          \A i \in DOMAIN view.table :
              view.table[i].Changes = get_changes(ss.doctors[i])
    /\ (LastIs("rerun") /\ Seeded(pre)) => ss = pre

\* a rerun over a row with a whitespace-only proposal, a missing one and
\* three real changes
C8_Witness ==
    /\ LastIs("rerun") /\ Seeded(pre)
    /\ ss.doctors[0]["New Address"] = S(" ")
    /\ Len(view.table[0].Changes) = 3
    /\ view.table[0].Changes[3] = <<"Year", I(1), F(2)>>

\* the session state right after seeding
InitialSeeded(s) ==
    /\ Seeded(s)
    /\ s.doctors = DataFrame(seed_data)
    /\ s.actions = EmptyDict
    /\ s.audit = <<>>

\* C9 as stated: in the seeded state Dr. Michael Chen's Address proposal
\* equals the current Address and the Focus proposal differs, get_changes
\* gives exactly [(Focus, 'Neurology', 'Neurosurgery')], and accepting the row
\* first sets Focus to 'Neurosurgery' and logs 'accepted' with fields Focus.
C9_ChenFocusOnly ==
    /\ InitialSeeded(ss) =>
          /\ ss.doctors[1]["Name"] = S("Dr. Michael Chen")
          /\ SameValue(ss.doctors[1]["New Address"], ss.doctors[1]["Address"])
          /\ ~SameValue(ss.doctors[1]["New Focus"], ss.doctors[1]["Focus"])
          /\ get_changes(ss.doctors[1]) =
                << <<"Focus", S("Neurology"), S("Neurosurgery")>> >>
    /\ (LastIs("accept") /\ last.idx = 1 /\ InitialSeeded(pre)) =>
          /\ ss.doctors[1]["Focus"] = S("Neurosurgery")
          /\ OneAppended(pre.audit, ss.audit)
          /\ ss.audit[Len(ss.audit)].Action = "accepted"
          /\ ss.audit[Len(ss.audit)].Fields = FieldsText(<<"Focus">>)

\* C9 amended: in the seeded state Dr. Michael Chen's Address proposal
\* ('999 5th Ave, New York, NY') and Focus proposal both differ from the
\* current values, get_changes gives the Address triple followed by
\* (Focus, 'Neurology', 'Neurosurgery'), and accepting the row first sets
\* Address and Focus and logs 'accepted' with fields Address, Focus.
C9_ChenAddressAndFocus ==
    /\ InitialSeeded(ss) =>
          /\ ss.doctors[1]["Name"] = S("Dr. Michael Chen")
          /\ ~SameValue(ss.doctors[1]["New Address"], ss.doctors[1]["Address"])
          /\ ~SameValue(ss.doctors[1]["New Focus"], ss.doctors[1]["Focus"])
          /\ get_changes(ss.doctors[1]) =
                << <<"Address", S("456 Healthcare Blvd, New York, NY"),
                     S("999 5th Ave, New York, NY")>>,
                   <<"Focus", S("Neurology"), S("Neurosurgery")>> >>
    /\ (LastIs("accept") /\ last.idx = 1 /\ InitialSeeded(pre)) =>
          /\ ss.doctors[1]["Address"] = S("999 5th Ave, New York, NY")
          /\ ss.doctors[1]["Focus"] = S("Neurosurgery")
          /\ OneAppended(pre.audit, ss.audit)
          /\ ss.audit[Len(ss.audit)].Action = "accepted"
          /\ ss.audit[Len(ss.audit)].Fields = FieldsText(<<"Address", "Focus">>)

\* Dr. Michael Chen was accepted as the first operation of the session
C9_Witness ==
    /\ Len(hist) = 2
    /\ last.op = "accept" /\ last.idx = 1
    /\ InitialSeeded(pre)
    /\ ss.audit[1].Name = "Dr. Michael Chen"

\* C10: in the seeded state Dr. Sarah Johnson has no differing proposal;
\* accepting her row changes no field of any row, leaves the action map
\* without an entry for her and appends one audit entry 'accepted (no-op)'
\* with an empty field list.
C10_JohnsonNoop ==
    /\ InitialSeeded(ss) =>
          /\ ss.doctors[0]["Name"] = S("Dr. Sarah Johnson")
          /\ ChangeList(ss.doctors[0]) = <<>>
    /\ (LastIs("accept") /\ last.idx = 0 /\ InitialSeeded(pre)) =>
          /\ ss.doctors = pre.doctors
          /\ "Dr. Sarah Johnson" \notin dict_keys(ss.actions)
          /\ OneAppended(pre.audit, ss.audit)
          /\ ss.audit[Len(ss.audit)].Name = "Dr. Sarah Johnson"
          /\ ss.audit[Len(ss.audit)].Action = "accepted (no-op)"
          /\ ss.audit[Len(ss.audit)].Fields = FieldsText(<<>>)

\* Dr. Sarah Johnson was accepted on the seeded state
C10_Witness ==
    /\ LastIs("accept") /\ last.idx = 0
    /\ InitialSeeded(pre)
    /\ Len(ss.audit) = 1
    /\ ss.actions = EmptyDict

\* the script runs that found the session without its doctors table
SeedingRuns == {j \in 1..Len(hist) : "doctors" \notin DOMAIN hist[j].pre}

\* C11: the session is seeded exactly once; a rerun that presses no button
\* leaves the row collection, the action map and the audit log as they were,
\* so values written by earlier accepts are not reverted to the seed data.
C11_SeededOnce ==
    /\ Cardinality(SeedingRuns) <= 1
    /\ (LastIs("rerun") /\ ~Seeded(pre)) => InitialSeeded(ss)
    /\ (LastIs("rerun") /\ Seeded(pre)) =>
          /\ ss.doctors = pre.doctors
          /\ ss.actions = pre.actions
          /\ ss.audit = pre.audit
    /\ (/\ Len(hist) >= 2
        /\ last.op = "rerun"
        /\ hist[Len(hist) - 1].op = "accept") =>
          LET i == hist[Len(hist) - 1].idx
              before == hist[Len(hist) - 1].pre.doctors[i]
          IN \A k \in 1..Len(ChangeList(before)) :
                SameValue(ss.doctors[i][ChangeList(before)[k]],
                          before[SlotOf(ChangeList(before)[k])])

\* a rerun on a session whose rows an earlier accept has changed
C11_Witness ==
    /\ Len(hist) >= 3
    /\ last.op = "rerun"
    /\ hist[Len(hist) - 1].op = "accept"
    /\ ss.doctors # DataFrame(seed_data)
    /\ ss.doctors[3]["Year"] = I(2018)
    /\ ss.actions # EmptyDict /\ ss.audit # <<>>

\* the row collection after the first j interactions
RowsAt(j) == IF j = Len(hist) THEN ss.doctors ELSE hist[j + 1].pre.doctors

\* C12: once accept or reject has been invoked on a row, get_changes on that
\* row is empty right after it and after every later interaction (accept or
\* reject of any row, clear-actions, clear-audit-log, rerun): the row never
\* becomes proposal-pending again.
C12_StaysResolved ==
    \A j \in 1..Len(hist) :
        hist[j].op \in {"accept", "reject"} =>
            \A m \in j..Len(hist) : get_changes(RowsAt(m)[hist[j].idx]) = <<>>

\* a row that was proposal-pending was rejected, and three interactions of
\* other kinds followed, one of them on another row
C12_Witness ==
    /\ Len(hist) = 4
    /\ hist[2].op = "reject"
    /\ get_changes(hist[2].pre.doctors[hist[2].idx]) # <<>>
    /\ hist[3].op = "accept" /\ hist[3].idx # hist[2].idx
    /\ hist[4].op = "clear_audit"
    /\ get_changes(ss.doctors[hist[2].idx]) = <<>>

\* C13: once an accept, reject, clear-actions or clear-audit-log has
\* completed, the page shown to the reviewer (table rows, action rollup, audit
\* log table) is a render of the session state the interaction left.
C13_ViewIsFresh ==
    (Len(hist) > 0 /\ last.op \in {"accept", "reject", "clear_actions", "clear_audit"}) =>
        view = Render(ss)

\* the fields of a row whose active proposal equals the current value
EqualList(row) ==
    SelectSeq(TrackedFields,
              LAMBDA f : Active(row[SlotOf(f)]) /\ SameValue(row[SlotOf(f)], row[f]))

\* C14: accept clears only the slots of the changed fields: every other slot,
\* an active one equal to the current value included, is left as it was, on
\* the no-op path and when other fields of the row change; a reject that
\* follows on that row clears those slots and lists their fields in its
\* 'rejected' audit entry.
C14_AcceptKeepsEqualSlots ==
    /\ LastIs("accept") =>
          \A j \in 1..Len(TrackedFields) :
              (\A m \in 1..Len(ChangeList(pre.doctors[last.idx])) :
                    ChangeList(pre.doctors[last.idx])[m] # TrackedFields[j]) =>
                  ss.doctors[last.idx][SlotOf(TrackedFields[j])] =
                      pre.doctors[last.idx][SlotOf(TrackedFields[j])]
    /\ (/\ Len(hist) >= 2
        /\ last.op = "reject"
        /\ hist[Len(hist) - 1].op = "accept"
        /\ hist[Len(hist) - 1].idx = last.idx) =>
          LET kept == EqualList(hist[Len(hist) - 1].pre.doctors[last.idx])
          IN /\ ss.audit[Len(ss.audit)].Action = "rejected"
             /\ ss.audit[Len(ss.audit)].Fields = FieldsText(kept)
             /\ \A j \in 1..Len(kept) : Active(pre.doctors[last.idx][SlotOf(kept[j])])
             /\ \A j \in 1..Len(kept) : ~Active(ss.doctors[last.idx][SlotOf(kept[j])])

\* a row with an equal Address proposal and other changes was accepted, then
\* rejected: the reject found and listed the Address slot
C14_Witness ==
    /\ Len(hist) >= 3
    /\ last.op = "reject"
    /\ hist[Len(hist) - 1].op = "accept"
    /\ hist[Len(hist) - 1].idx = last.idx
    /\ ChangeList(hist[Len(hist) - 1].pre.doctors[last.idx]) # <<>>
    /\ EqualList(hist[Len(hist) - 1].pre.doctors[last.idx]) = <<"Address">>
    /\ ss.audit[Len(ss.audit)].Fields = "Address"

\* the entity names of a row collection
NamesOf(df) == {df[i]["Name"].s : i \in DOMAIN df}

\* C15: an accept or reject of row i leaves every field of every other row
\* as it was, changes the Name and Source Page of no row, and neither adds
\* nor removes rows; the set of entity names is that of the seed data
\* throughout the session.
C15_SingleRow ==
    /\ (Len(hist) > 0 /\ last.op \in {"accept", "reject"}) =>
          /\ DOMAIN ss.doctors = DOMAIN pre.doctors
          /\ \A i \in DOMAIN ss.doctors :
                /\ i # last.idx => ss.doctors[i] = pre.doctors[i]
                /\ ss.doctors[i]["Name"] = pre.doctors[i]["Name"]
                /\ ss.doctors[i]["Source Page"] = pre.doctors[i]["Source Page"]
    /\ Seeded(ss) =>
          /\ DOMAIN ss.doctors = DOMAIN seed
          /\ NamesOf(ss.doctors) = NamesOf(seed)
          /\ Cardinality(NamesOf(ss.doctors)) = Cardinality(DOMAIN ss.doctors)

\* two different rows were changed one after the other, and a third reviewed
C15_Witness ==
    /\ Len(hist) = 4
    /\ hist[2].op = "accept" /\ hist[2].idx = 1
    /\ hist[3].op = "reject" /\ hist[3].idx = 4
    /\ hist[4].op = "accept" /\ hist[4].idx = 3
    /\ ss.doctors[1]["Focus"] = S("Neurosurgery")
    /\ ss.doctors[4]["New Address"] = S("")
    /\ ss.doctors[3]["Year"] = I(2018)
    /\ ss.doctors[0] = DataFrame(seed_data)[0]

\* the elements of a list
Elems(q) == {q[j] : j \in DOMAIN q}

\* C16: the keys of the action map are names of seeded rows and every value
\* is exactly 'accepted' or 'rejected' ('accepted (no-op)' is never stored),
\* so the rollup's accepted list and rejected list are disjoint and together
\* cover every key of the action map.
C16_ActionMapShape ==
    /\ Seeded(ss) =>
          /\ dict_keys(ss.actions) \subseteq NamesOf(DataFrame(seed))
          /\ Cardinality(dict_keys(ss.actions)) = Len(ss.actions)
          /\ \A j \in DOMAIN ss.actions : ss.actions[j][2] \in {"accepted", "rejected"}
          /\ Elems(accepted_names(ss.actions)) \cap Elems(rejected_names(ss.actions)) = {}
          /\ Elems(accepted_names(ss.actions)) \cup Elems(rejected_names(ss.actions))
                = dict_keys(ss.actions)
    /\ view.rendered =>
          /\ Elems(view.accepted) \cap Elems(view.rejected) = {}
          /\ dict_keys(ss.actions) \subseteq Elems(view.accepted) \cup Elems(view.rejected)

\* a no-op accept, an accept with changes and a reject have run: the page
\* lists one accepted and one rejected entity
C16_Witness ==
    /\ Len(hist) = 4
    /\ Len(ss.audit) = 3
    /\ \E j \in 1..3 : ss.audit[j].Action = "accepted (no-op)"
    /\ Len(view.accepted) = 1
    /\ Len(view.rejected) = 1
    /\ Len(ss.actions) = 2

\* the lists of tracked field names, in tracked-field order, that contain f
FieldListsWith(f) ==
    {SelectSeq(TrackedFields, LAMBDA g : \E k \in ks : TrackedFields[k] = g) :
        ks \in {x \in SUBSET (1..Len(TrackedFields)) :
                   \E k \in x : TrackedFields[k] = f}}

\* the names of a list as one text, separated by a comma and a space
RECURSIVE CommaList(_)
CommaList(fs) ==
    IF Len(fs) = 1 THEN Head(fs) ELSE Head(fs) \o ", " \o CommaList(Tail(fs))

\* interaction j appended an 'accepted' audit entry naming entity name and
\* field f
AcceptedEntryAt(j, name, f) ==
    /\ hist[j].op = "accept"
    /\ LET log == AuditAt(j)
       IN /\ Len(log) > 0
          /\ log[Len(log)].Name = name
          /\ log[Len(log)].Action = "accepted"
          /\ \E fs \in FieldListsWith(f) : log[Len(log)].Fields = CommaList(fs)

\* C17: for every row and tracked field the current value is the seeded
\* current value or the seeded proposal, and the slot holds its seeded value
\* or is empty; a current value differs from the seeded one only if an
\* 'accepted' audit entry naming that entity and field was appended earlier
\* in the session.
C17_ValuesFromSeed ==
    Seeded(ss) =>
        \A i \in DOMAIN ss.doctors : \A k \in 1..Len(TrackedFields) :
            LET f == TrackedFields[k]
                cur == ss.doctors[i][f]
                slot == ss.doctors[i][SlotOf(f)]
                seeded == DataFrame(seed)[i]
            IN /\ cur = seeded[f] \/ SameValue(cur, seeded[SlotOf(f)])
               /\ slot = seeded[SlotOf(f)] \/ ~Active(slot)
               /\ cur # seeded[f] =>
                     \E j \in 1..Len(hist) :
                         AcceptedEntryAt(j, seeded["Name"].s, f)

\* an accepted Address and Focus, with the audit log cleared since
C17_Witness ==
    /\ Len(hist) >= 3
    /\ last.op = "clear_audit"
    /\ ss.audit = <<>>
    /\ ss.doctors[1]["Focus"] # DataFrame(seed)[1]["Focus"]
    /\ ss.doctors[1]["Address"] # DataFrame(seed)[1]["Address"]
    /\ AcceptedEntryAt(Len(hist) - 1, "Dr. Michael Chen", "Focus")

\* C18: whenever the launcher has ended after spawning the Streamlit child
\* (interrupted during the health-check wait, after a failed health check, or
\* while streaming logs), it has sent the child a terminate request; and the
\* browser is opened only after a health-check request returned status 200.
C18_LauncherLifecycle ==
    /\ (launcher.pc = "ended" /\ launcher.child # "none") => launcher.term_sent
    /\ launcher.browser => launcher.health200

====
